---- MODULE Spec2Model ----
(***************************************************************************)
(* A model of src/timescaledb_util.py (class TimeScaleDBUtil): the schema  *)
(* provisioning (init_*_table), the bulk append (df_to_sql), the read      *)
(* operations (get_latest_*, get_first_trade, load_*bars) and the two      *)
(* pass-through operations (sql_execute, read_sql_query) over one table    *)
(* and the enum_side type of a PostgreSQL/TimescaleDB database, as the SQL *)
(* text and the pandas calls in the source behave.                         *)
(*                                                                         *)
(* A stored row is abstracted to the three columns that the WHERE, ORDER   *)
(* BY and UNIQUE clauses of the source read: datetime, id, dollar_cumsum.  *)
(* Every other column carries the placeholder value Other.                 *)
(*                                                                         *)
(* Spec       every public operation as one step, from a fresh handle      *)
(* WriteSpec  init_*_table and df_to_sql alone                             *)
(* QuerySpec  the read operations on every table Spec can reach            *)
(* ConcSpec   two callers, __init__ and init_*_table split at statements   *)
(***************************************************************************)
EXTENDS Integers, Sequences, FiniteSets, Bags, TLC

VARIABLES
    enum_side,  \* number of pg_type rows named enum_side (successful CREATE TYPE)
    kind,       \* the table family of this behaviour's table (fixed)
    tbl,        \* the physical table: [exists, unique, rows]
    res,        \* outcome of the last public operation (return value or raise)
    recreate,   \* progress through ensure(force); append; ensure(force)
    pc,         \* per caller: position inside __init__ / init_*_table
    acked       \* rows whose df_to_sql call returned normally (ConcSpec)

vars == <<enum_side, kind, tbl, res, recreate, pc, acked>>

----------------------------------------------------------------------------
(* Bounds *)
MaxTime == 2
MaxCum == 2
MaxRows == 2

(* LIMIT 1000 of the latest/first trade queries *)
LIMIT == 1000

----------------------------------------------------------------------------
(* Data *)
NULL == "NULL"
Other == "v"
Ids == {"a"}
IdValues == Ids \cup {NULL}
Kinds == {"trade", "dollarbar", "timebar"}
Callers == {"c1", "c2"}
Policies == {"fail", "append", "replace"}
None == "None"

RowValues == [datetime : 1..MaxTime, id : IdValues, dollar_cumsum : 1..MaxCum]

TradeColumns ==
    <<"datetime", "id", "side", "liquidation", "price", "volume",
      "dollar_volume", "dollar_cumsum", "dollar_buy_cumsum", "dollar_sell_cumsum">>

TradeDecimal ==
    {"price", "volume", "dollar_volume", "dollar_cumsum", "dollar_buy_cumsum",
     "dollar_sell_cumsum"}

BarColumns ==
    <<"datetime", "datetime_from", "id", "id_from", "open", "high", "low", "close",
      "volume", "dollar_volume", "dollar_buy_volume", "dollar_sell_volume",
      "dollar_liquidation_volume", "dollar_liquidation_buy_volume",
      "dollar_liquidation_sell_volume", "dollar_cumsum", "dollar_buy_cumsum",
      "dollar_sell_cumsum">>

BarDecimal ==
    {"open", "high", "low", "close", "volume", "dollar_volume", "dollar_buy_volume",
     "dollar_sell_volume", "dollar_liquidation_volume",
     "dollar_liquidation_buy_volume", "dollar_liquidation_sell_volume",
     "dollar_cumsum", "dollar_buy_cumsum", "dollar_sell_cumsum"}

Range(s) == {s[i] : i \in 1..Len(s)}

Columns(k) == IF k = "trade" THEN TradeColumns ELSE BarColumns
DecimalColumns(k) == IF k = "trade" THEN TradeDecimal ELSE BarDecimal

(* The value a stored row holds in column c. *)
ColumnValue(r, c) ==
    CASE c = "datetime" -> r.datetime
      [] c = "id" -> r.id
      [] c = "dollar_cumsum" -> r.dollar_cumsum
      [] OTHER -> Other

----------------------------------------------------------------------------
(* Table contents: a bag of rows *)
EmptyRows == EmptyBag
Count(rows, r) == CopiesIn(r, rows)
Total(rows) == BagCardinality(rows)
Present(rows) == BagToSet(rows)
AddRow(rows, r) == rows (+) SetToBag({r})
DelRow(rows, r) == rows (-) SetToBag({r})

RECURSIVE SumOver(_, _)
SumOver(rows, S) ==
    IF S = {} THEN 0
    ELSE LET x == CHOOSE y \in S : TRUE IN Count(rows, x) + SumOver(rows, S \ {x})

RECURSIVE AddBatch(_, _)
AddBatch(rows, batch) ==
    IF batch = <<>> THEN rows
    ELSE AddBatch(AddRow(rows, Head(batch)), Tail(batch))

(* DataFrames handed to df_to_sql: zero, one or two rows, at most n *)
Batches(n) ==
    {<<>>} \cup (IF n >= 1 THEN {<<r>> : r \in RowValues} ELSE {})
           \cup (IF n >= 2 THEN {<<r, s>> : r, s \in RowValues} ELSE {})

Absent == [exists |-> FALSE, unique |-> FALSE, rows |-> EmptyRows]

(* The catalog lookup: select * from information_schema.tables where ... *)
TableExists(t) == t.exists

----------------------------------------------------------------------------
(* Schema Manager: init_trade_table / init_dollarbar_table / init_timebar_table *)

(* Variant of EnsureSkips: the early return is never taken. *)
EnsureSkips_NoGuard(found, force) == FALSE

(* if _df.empty == False and force == False: return *)
EnsureSkips(found, force) == found /\ ~force

(* Variant of ProvisionDDL: the batch without its DROP TABLE statement. *)
ProvisionDDL_NoDrop(t) ==
    IF t.exists THEN t ELSE [exists |-> TRUE, unique |-> TRUE, rows |-> EmptyRows]

(* DROP TABLE IF EXISTS ... CASCADE; CREATE TABLE IF NOT EXISTS ... UNIQUE(...);
   CREATE INDEX ...; SELECT create_hypertable(...): one statement batch, run in
   one transaction. *)
ProvisionDDL(t) == [exists |-> TRUE, unique |-> TRUE, rows |-> EmptyRows]

(* The trade table's side column is of type enum_side: without the type the
   CREATE TABLE of the batch fails and the batch, DROP TABLE included, is
   rolled back.  The bar tables do not use the type. *)
TypeMissing(k, e) == k = "trade" /\ e = 0

(* What follows the table batch.  init_trade_table builds the text of the
   daily-view batch with an f-string that names the undefined _table_mane:
   NameError is raised before the view batch is issued.  The bar tables
   return after the table batch. *)
AfterTableBatch(k) == IF k = "trade" THEN "NameError" ELSE "ok"

(* History of the sequence ensure(force); append(non-empty); ensure(force):
   0 none, 1 after the first forced ensure, 2 after an append that wrote rows,
   3 after the second forced ensure. *)
AfterForce(p) == IF p = 2 THEN 3 ELSE 1
AfterWrite(p) == IF p = 1 THEN 2 ELSE 0

InitTable(force) ==
    LET found == TableExists(tbl) IN
    IF EnsureSkips(found, force)
    THEN /\ res' = [op |-> "ensure_table", force |-> force, found |-> found,
                    out |-> "ok", err |-> "none"]
         /\ UNCHANGED <<enum_side, kind, tbl, recreate, pc, acked>>
    ELSE IF TypeMissing(kind, enum_side)
    THEN /\ res' = [op |-> "ensure_table", force |-> force, found |-> found,
                    out |-> "raise", err |-> "ProgrammingError"]
         /\ recreate' = 0
         /\ UNCHANGED <<enum_side, kind, tbl, pc, acked>>
    ELSE LET after == AfterTableBatch(kind) IN
         /\ tbl' = ProvisionDDL(tbl)
         /\ res' = [op |-> "ensure_table", force |-> force, found |-> found,
                    out |-> IF after = "ok" THEN "ok" ELSE "raise", err |-> after]
         /\ recreate' = IF force THEN AfterForce(recreate) ELSE 0
         /\ UNCHANGED <<enum_side, kind, pc, acked>>

init_trade_table(force) == kind = "trade" /\ InitTable(force)
init_dollarbar_table(force) == kind = "dollarbar" /\ InitTable(force)
init_timebar_table(force) == kind = "timebar" /\ InitTable(force)

----------------------------------------------------------------------------
(* Ingestion Gateway: df_to_sql *)

(* Two rows collide under the table's UNIQUE constraint: UNIQUE(datetime) for
   time-bars, UNIQUE(datetime, id) for trades and dollar-bars, where id is a
   nullable text column and a NULL id never equals another id. *)
Conflicts(k, r1, r2) ==
    IF k = "timebar"
    THEN r1.datetime = r2.datetime
    ELSE r1.datetime = r2.datetime /\ r1.id = r2.id /\ r1.id # NULL

UniqueViolation(k, rows, batch) ==
    \E i \in 1..Len(batch) :
        \/ \E r \in Present(rows) : Conflicts(k, r, batch[i])
        \/ \E j \in 1..(i - 1) : Conflicts(k, batch[j], batch[i])

(* DataFrame.to_sql(name, con, if_exists, index=False): creates the table from
   the frame when it is absent (no constraint), and otherwise fails, replaces
   or inserts in one transaction. *)
PandasToSql(k, t, batch, if_exists) ==
    IF ~t.exists
    THEN [tbl |-> [exists |-> TRUE, unique |-> FALSE, rows |-> AddBatch(EmptyRows, batch)],
          out |-> "ok", err |-> "none"]
    ELSE IF if_exists = "fail"
    THEN [tbl |-> t, out |-> "raise", err |-> "ValueError"]
    ELSE IF if_exists = "replace"
    THEN [tbl |-> [exists |-> TRUE, unique |-> FALSE, rows |-> AddBatch(EmptyRows, batch)],
          out |-> "ok", err |-> "none"]
    ELSE IF t.unique /\ UniqueViolation(k, t.rows, batch)
    THEN [tbl |-> t, out |-> "raise", err |-> "IntegrityError"]
    ELSE [tbl |-> [t EXCEPT !.rows = AddBatch(t.rows, batch)], out |-> "ok", err |-> "none"]

(* Some row of the batch has the uniqueness key of a stored row. *)
SameKey(k, r1, r2) ==
    IF k = "timebar" THEN r1.datetime = r2.datetime
    ELSE r1.datetime = r2.datetime /\ r1.id = r2.id

KeyAlreadyStored(k, rows, batch) ==
    \E i \in 1..Len(batch) : \E r \in Present(rows) : SameKey(k, r, batch[i])

df_to_sql(batch, schemaGiven, if_exists) ==
    /\ Total(tbl.rows) + Len(batch) <= MaxRows
    /\ IF batch = <<>> \/ ~schemaGiven
       THEN /\ res' = [op |-> "append", if_exists |-> if_exists, dupkey |-> FALSE,
                       out |-> "none", err |-> "none"]
            /\ UNCHANGED <<enum_side, kind, tbl, recreate, pc, acked>>
       ELSE LET r == PandasToSql(kind, tbl, batch, if_exists) IN
            /\ tbl' = r.tbl
            /\ res' = [op |-> "append", if_exists |-> if_exists,
                       dupkey |-> TableExists(tbl) /\ KeyAlreadyStored(kind, tbl.rows, batch),
                       out |-> r.out, err |-> r.err]
            /\ recreate' = IF r.out = "ok" /\ if_exists = "append" /\ TableExists(tbl)
                           THEN AfterWrite(recreate) ELSE 0
            /\ UNCHANGED <<enum_side, kind, pc, acked>>

----------------------------------------------------------------------------
(* Query Engine: get_latest_trade, get_first_trade, get_latest_dollarbar,
   get_latest_timebar, load_dollarbars, load_timebars *)

(* The possible results of  SELECT * FROM t ORDER BY datetime DESC LIMIT n:
   the n rows of greatest datetime, rows of equal datetime in any order. *)
RECURSIVE TopByDatetime(_, _)
TopByDatetime(rows, n) ==
    IF n = 0 \/ Present(rows) = {} THEN {EmptyRows}
    ELSE LET P == Present(rows)
             newest == {r \in P : \A s \in P : s.datetime <= r.datetime}
         IN  UNION {{AddRow(w, r) : w \in TopByDatetime(DelRow(rows, r), n - 1)} :
                    r \in newest}

(* SELECT * FROM time_filtered ORDER BY dollar_cumsum DESC LIMIT 1 *)
TopByCumsum(rows) ==
    LET P == Present(rows) IN {r \in P : \A s \in P : s.dollar_cumsum <= r.dollar_cumsum}

LatestTradeRows(rows) == UNION {TopByCumsum(w) : w \in TopByDatetime(rows, LIMIT)}

(* ORDER BY datetime DESC, id DESC LIMIT 1: a NULL id sorts first under
   DESC, ahead of the one id text of Ids *)
IdRank(id) == IF id = NULL THEN 1 ELSE 0

LatestBarRows(rows) ==
    LET P == Present(rows)
        newest == {r \in P : \A s \in P : s.datetime <= r.datetime}
    IN  {r \in newest : \A s \in newest : IdRank(s.id) <= IdRank(r.id)}

(* The dtype={...: str} argument of each query, and the columns to which
   .apply(_to_decimal) is applied. *)
LatestTradeText ==
    {"price", "volume", "dollar_volume", "dollar_cumsum", "dollar_buy_cumsum",
     "dollar_sell_cumsum"}
LatestTradeApplied ==
    {"price", "volume", "dollar_cumsum", "dollar_buy_cumsum", "dollar_sell_cumsum"}

LatestBarText ==
    {"open", "high", "low", "close", "volume", "dollar_volume", "dollar_buy_volume",
     "dollar_sell_volume", "dollar_liquidation_buy_volume",
     "dollar_liquidation_sell_volume", "dollar_cumsum"}
LatestTimebarApplied == BarDecimal

(* How each column of a returned record reached the caller: a column read
   with dtype str arrives as text, any other NUMERIC column as the float64
   pandas builds; Decimal(x) turns either into a decimal. *)
Decoded(k, text, applied) ==
    [c \in Range(Columns(k)) |->
        IF c \notin DecimalColumns(k) THEN "native"
        ELSE IF c \in applied
             THEN (IF c \in text THEN "decimal" ELSE "decimal_from_float")
             ELSE (IF c \in text THEN "text" ELSE "float")]

NoneRes(op) == [op |-> op, out |-> "none", err |-> "none"]
RaiseRes(op, err) == [op |-> op, out |-> "raise", err |-> err]

get_latest_trade ==
    /\ kind = "trade"
    /\ IF ~TableExists(tbl) \/ Total(tbl.rows) = 0
       THEN res' = NoneRes("latest")
       ELSE \E r \in LatestTradeRows(tbl.rows) :
                res' = [op |-> "latest", out |-> "ok", err |-> "none", row |-> r,
                        repr |-> Decoded("trade", LatestTradeText, LatestTradeApplied)]
    /\ UNCHANGED <<enum_side, kind, tbl, recreate, pc, acked>>

(* The query passes dtype={..., 'dollar': str, ...}; the table has no column
   named dollar, and DataFrame.astype raises KeyError for a key that is not a
   column, whatever the rows. *)
get_first_trade ==
    /\ kind = "trade"
    /\ IF ~TableExists(tbl)
       THEN res' = NoneRes("first")
       ELSE res' = RaiseRes("first", "KeyError")
    /\ UNCHANGED <<enum_side, kind, tbl, recreate, pc, acked>>

(* _df['dollar_buy_cumsum'].appselly(...) raises AttributeError whenever the
   query returned a row. *)
get_latest_dollarbar ==
    /\ kind = "dollarbar"
    /\ IF ~TableExists(tbl) \/ Total(tbl.rows) = 0
       THEN res' = NoneRes("latest")
       ELSE res' = RaiseRes("latest", "AttributeError")
    /\ UNCHANGED <<enum_side, kind, tbl, recreate, pc, acked>>

get_latest_timebar ==
    /\ kind = "timebar"
    /\ IF ~TableExists(tbl) \/ Total(tbl.rows) = 0
       THEN res' = NoneRes("latest")
       ELSE \E r \in LatestBarRows(tbl.rows) :
                res' = [op |-> "latest", out |-> "ok", err |-> "none", row |-> r,
                        repr |-> Decoded("timebar", LatestBarText, LatestTimebarApplied)]
    /\ UNCHANGED <<enum_side, kind, tbl, recreate, pc, acked>>

(* Variant of InRange: the upper bound taken inclusive. *)
InRange_Closed(dt, from, to) == from <= dt /\ dt <= to

(* WHERE datetime >= '{from_str}' AND datetime < '{to_str}' *)
InRange(dt, from, to) == from <= dt /\ dt < to

Where(rows, from, to) ==
    LET keep == {r \in Present(rows) : InRange(r.datetime, from, to)} IN
    [r \in keep |-> rows[r]]

(* ORDER BY dollar_cumsum ASC: rows of equal dollar_cumsum in any order *)
RECURSIVE OrderByCumsum(_)
OrderByCumsum(rows) ==
    IF Present(rows) = {} THEN {<<>>}
    ELSE LET P == Present(rows)
             least == {r \in P : \A s \in P : r.dollar_cumsum <= s.dollar_cumsum}
         IN  UNION {{<<r>> \o s : s \in OrderByCumsum(DelRow(rows, r))} : r \in least}

(* _df[[...]]: the projection of load_dollarbars and load_timebars *)
LoadColumns ==
    <<"datetime", "open", "high", "low", "close", "dollar_volume",
      "dollar_buy_volume", "dollar_sell_volume", "dollar_liquidation_buy_volume",
      "dollar_liquidation_sell_volume", "dollar_cumsum", "dollar_buy_cumsum",
      "dollar_sell_cumsum">>

Project(r, cols) == [c \in Range(cols) |-> ColumnValue(r, c)]

(* load_dollarbars / load_timebars run the SELECT without a catalog lookup:
   on an absent table the engine's UndefinedTable error propagates. *)
LoadBars(from, to) ==
    IF ~TableExists(tbl)
    THEN res' = [op |-> "load_range", out |-> "raise", err |-> "ProgrammingError",
                 from |-> from, to |-> to]
    ELSE \E s \in OrderByCumsum(Where(tbl.rows, from, to)) :
             res' = [op |-> "load_range", out |-> "ok", err |-> "none",
                     from |-> from, to |-> to, columns |-> LoadColumns,
                     rows |-> [i \in 1..Len(s) |-> Project(s[i], LoadColumns)],
                     repr |-> [c \in Range(LoadColumns) |->
                                  Decoded(kind, {}, {})[c]]]

load_dollarbars(from, to) ==
    /\ kind = "dollarbar"
    /\ LoadBars(from, to)
    /\ UNCHANGED <<enum_side, kind, tbl, recreate, pc, acked>>

load_timebars(from, to) ==
    /\ kind = "timebar"
    /\ LoadBars(from, to)
    /\ UNCHANGED <<enum_side, kind, tbl, recreate, pc, acked>>

----------------------------------------------------------------------------
(* Pass-through operations: sql_execute, read_sql_query *)

(* The statements a caller hands to sql_execute / read_sql_query, named for
   the table of this behaviour:
     drop_table     DROP TABLE IF EXISTS "<table>" CASCADE
     delete_rows    DELETE FROM "<table>"
     create_type    CREATE TYPE enum_side AS ENUM ('buy', 'sell')
     drop_type      DROP TYPE enum_side
     select_table   SELECT * FROM "<table>"
     select_catalog select * from information_schema.tables where table_name='<table>' *)
SqlTexts ==
    {"drop_table", "delete_rows", "create_type", "drop_type", "select_table",
     "select_catalog"}

(* The provisioned trade table has a column of type enum_side. *)
UsesType(k, t) == k = "trade" /\ t.exists /\ t.unique

(* What the database does with one statement: the table and the type after
   it, the error it reports, and, for a statement that returns rows, their
   number and whether they have a datetime column. *)
Execute(sql, k, t, e) ==
    LET done(t2, e2) == [tbl |-> t2, enum_side |-> e2, err |-> "none",
                         returns_rows |-> FALSE, n |-> 0, has_datetime |-> FALSE]
        rows(n, d)   == [tbl |-> t, enum_side |-> e, err |-> "none",
                         returns_rows |-> TRUE, n |-> n, has_datetime |-> d]
        fail(err)    == [tbl |-> t, enum_side |-> e, err |-> err,
                         returns_rows |-> FALSE, n |-> 0, has_datetime |-> FALSE]
    IN  CASE sql = "drop_table" -> done(Absent, e)
          [] sql = "delete_rows" ->
                 IF t.exists THEN done([t EXCEPT !.rows = EmptyRows], e)
                 ELSE fail("ProgrammingError")
          [] sql = "create_type" ->
                 IF e = 0 THEN done(t, 1) ELSE fail("ProgrammingError")
          [] sql = "drop_type" ->
                 IF e = 0 THEN fail("ProgrammingError")
                 ELSE IF UsesType(k, t) THEN fail("InternalError")
                 ELSE done(t, 0)
          [] sql = "select_table" ->
                 IF t.exists THEN rows(Total(t.rows), TRUE)
                 ELSE fail("ProgrammingError")
          [] sql = "select_catalog" -> rows(IF t.exists THEN 1 ELSE 0, FALSE)

(* return self._engine.execute(sql): the statement runs and is committed, or
   its error propagates. *)
sql_execute(sql) ==
    IF sql = None
    THEN /\ res' = [op |-> "sql_execute", sql |-> sql, out |-> "raise",
                    err |-> "ValueError"]
         /\ UNCHANGED <<enum_side, kind, tbl, recreate, pc, acked>>
    ELSE LET x == Execute(sql, kind, tbl, enum_side) IN
         /\ tbl' = x.tbl
         /\ enum_side' = x.enum_side
         /\ res' = [op |-> "sql_execute", sql |-> sql,
                    out |-> IF x.err = "none" THEN "ok" ELSE "raise", err |-> x.err]
         /\ recreate' = 0
         /\ UNCHANGED <<kind, pc, acked>>

(* pd.read_sql_query(sql, self._engine, dtype=dtype), then set_index when
   index_column is given.  A statement that returns no rows makes pandas
   raise once it has been executed; whether its effect is then committed or
   rolled back depends on the pandas/SQLAlchemy pair installed, so both
   outcomes are allowed.  set_index raises KeyError when the frame has no
   such column. *)
read_sql_query(sql, index_column) ==
    IF sql = None
    THEN /\ res' = [op |-> "read_sql_query", sql |-> sql, out |-> "raise",
                    err |-> "ValueError"]
         /\ UNCHANGED <<enum_side, kind, tbl, recreate, pc, acked>>
    ELSE LET x == Execute(sql, kind, tbl, enum_side) IN
         IF x.err # "none"
         THEN /\ res' = [op |-> "read_sql_query", sql |-> sql, out |-> "raise",
                         err |-> x.err]
              /\ recreate' = 0
              /\ UNCHANGED <<enum_side, kind, tbl, pc, acked>>
         ELSE IF ~x.returns_rows
         THEN /\ res' = [op |-> "read_sql_query", sql |-> sql, out |-> "raise",
                         err |-> "ResourceClosedError"]
              /\ \/ tbl' = x.tbl /\ enum_side' = x.enum_side
                 \/ tbl' = tbl /\ enum_side' = enum_side
              /\ recreate' = 0
              /\ UNCHANGED <<kind, pc, acked>>
         ELSE /\ res' = IF index_column = "datetime" /\ ~x.has_datetime
                        THEN [op |-> "read_sql_query", sql |-> sql, out |-> "raise",
                              err |-> "KeyError"]
                        ELSE [op |-> "read_sql_query", sql |-> sql, out |-> "ok",
                              err |-> "none", n |-> x.n, index |-> index_column]
              /\ recreate' = 0
              /\ UNCHANGED <<enum_side, kind, tbl, pc, acked>>

----------------------------------------------------------------------------
(* Two callers: __init__ (lines 38-40) and init_*_table with force=False,
   each split at its statement boundaries: the catalog read and the
   statement it guards are separate round trips to the database. *)

(* _df = read_sql_query("SELECT * from pg_type WHERE typname='enum_side'") *)
ConstructCheck(c) ==
    /\ pc[c] = "new"
    /\ pc' = [pc EXCEPT ![c] = IF enum_side = 0 THEN "create_type" ELSE "ready"]
    /\ UNCHANGED <<enum_side, kind, tbl, res, recreate, acked>>

(* sql_execute("CREATE TYPE enum_side AS ENUM ('buy', 'sell')"): no handler
   surrounds it, so the engine's duplicate-type error leaves __init__. *)
ConstructCreate(c) ==
    /\ pc[c] = "create_type"
    /\ IF enum_side = 0
       THEN /\ enum_side' = 1
            /\ pc' = [pc EXCEPT ![c] = "ready"]
       ELSE /\ pc' = [pc EXCEPT ![c] = "init_failed"]
            /\ UNCHANGED enum_side
    /\ UNCHANGED <<kind, tbl, res, recreate, acked>>

(* The catalog lookup of init_*_table(force=False); a caller whose call
   raised may call again. *)
EnsureCheck(c) ==
    /\ pc[c] \in {"ready", "raised"}
    /\ pc' = [pc EXCEPT ![c] = IF EnsureSkips(TableExists(tbl), FALSE)
                               THEN "provisioned" ELSE "ddl"]
    /\ UNCHANGED <<enum_side, kind, tbl, res, recreate, acked>>

(* self.sql_execute(_sql) of the table batch, and what follows it *)
EnsureDDL(c) ==
    /\ pc[c] = "ddl"
    /\ tbl' = IF TypeMissing(kind, enum_side) THEN tbl ELSE ProvisionDDL(tbl)
    /\ acked' = acked
    /\ pc' = [pc EXCEPT ![c] = IF ~TypeMissing(kind, enum_side) /\ AfterTableBatch(kind) = "ok"
                               THEN "provisioned" ELSE "raised"]
    /\ UNCHANGED <<enum_side, kind, res, recreate>>

(* df_to_sql(df, table, if_exists='append') of a one-row frame, by a caller
   whose init_*_table has returned *)
AppendRow(c, r) ==
    /\ pc[c] = "provisioned"
    /\ Total(tbl.rows) < MaxRows
    /\ Total(acked) < MaxRows
    /\ LET w == PandasToSql(kind, tbl, <<r>>, "append") IN
       /\ tbl' = w.tbl
       /\ acked' = IF w.out = "ok" THEN AddRow(acked, r) ELSE acked
    /\ UNCHANGED <<enum_side, kind, res, recreate, pc>>

----------------------------------------------------------------------------
IdleRes == [op |-> "construct", out |-> "ok", err |-> "none"]

(* After TimeScaleDBUtil(...) has returned, on a schema without the table *)
Init ==
    /\ enum_side = 1
    /\ kind \in Kinds
    /\ tbl = Absent
    /\ res = IdleRes
    /\ recreate = 0
    /\ pc = [c \in Callers |-> "ready"]
    /\ acked = EmptyRows

Room == MaxRows - Total(tbl.rows)

Reads ==
    \/ get_latest_trade
    \/ get_first_trade
    \/ get_latest_dollarbar
    \/ get_latest_timebar
    \/ \E from, to \in 1..(MaxTime + 1) : load_dollarbars(from, to)
    \/ \E from, to \in 1..(MaxTime + 1) : load_timebars(from, to)

(* A call of df_to_sql with a frame that fits the bound on stored rows *)
DfToSql ==
    \E batch \in Batches(Room), g \in BOOLEAN, p \in Policies : df_to_sql(batch, g, p)

Writes ==
    \/ \E force \in BOOLEAN : init_trade_table(force)
    \/ \E force \in BOOLEAN : init_dollarbar_table(force)
    \/ \E force \in BOOLEAN : init_timebar_table(force)
    \/ DfToSql

(* Caller-supplied SQL through the two pass-through operations *)
Raw ==
    \/ \E sql \in SqlTexts \cup {None} : sql_execute(sql)
    \/ \E sql \in SqlTexts \cup {None}, index_column \in {"", "datetime"} :
           read_sql_query(sql, index_column)

Next == Writes \/ Reads \/ Raw

Spec == Init /\ [][Next]_vars

(* The provisioning and append operations alone *)
WriteSpec == Init /\ [][Writes]_vars

(* The tables the operations above can leave behind: absent, created by
   to_sql (no constraint), or provisioned (rows that do not collide under
   the UNIQUE constraint). *)
NoCollision(k, rows) ==
    /\ \A r \in Present(rows) : Conflicts(k, r, r) => Count(rows, r) = 1
    /\ \A r, s \in Present(rows) : r # s => ~Conflicts(k, r, s)

RECURSIVE RowsUpTo(_)
RowsUpTo(n) ==
    IF n = 0 THEN {EmptyRows}
    ELSE LET less == RowsUpTo(n - 1) IN
         less \cup {AddRow(m, r) : m \in less, r \in RowValues}

Tables(k) ==
    {Absent} \cup
    {t \in [exists : {TRUE}, unique : BOOLEAN, rows : RowsUpTo(MaxRows)] :
        t.unique => NoCollision(k, t.rows)}

QueryInit ==
    /\ enum_side = 1
    /\ kind \in Kinds
    /\ tbl \in Tables(kind)
    /\ res = IdleRes
    /\ recreate = 0
    /\ pc = [c \in Callers |-> "ready"]
    /\ acked = EmptyRows

(* The read operations applied to every table content *)
QuerySpec == QueryInit /\ [][Reads]_vars

(* Two callers constructing a handle on a database without enum_side, then
   provisioning and appending *)
ConcInit ==
    /\ enum_side = 0
    /\ kind \in Kinds
    /\ tbl = Absent
    /\ res = IdleRes
    /\ recreate = 0
    /\ pc = [c \in Callers |-> "new"]
    /\ acked = EmptyRows

ConcNext ==
    \E c \in Callers :
        \/ ConstructCheck(c)
        \/ ConstructCreate(c)
        \/ EnsureCheck(c)
        \/ EnsureDDL(c)
        \/ \E r \in RowValues : AppendRow(c, r)

ConcSpec == ConcInit /\ [][ConcNext]_vars

(* Every table the operations of Spec reach is one QuerySpec starts from *)
TableReachable == tbl \in Tables(kind)

----------------------------------------------------------------------------
(* Properties *)

ReadOps == {"latest", "first", "load_range"}

(* C1: every read operation on a table that was never created returns
   absent (latest, first) or an empty sequence (load_range) and never
   raises.  Stated as the claim has it; load_dollarbars and load_timebars
   raise on an absent table. *)
C1_ReadsOfAbsentTableNeverRaise ==
    (res.op \in ReadOps /\ ~tbl.exists) =>
        /\ res.out # "raise"
        /\ res.op \in {"latest", "first"} => res.out = "none"
        /\ res.op = "load_range" => (res.out = "ok" /\ res.rows = <<>>)

(* Rows with a datetime greater than t, and with one at least t *)
NewerThan(rows, t) == SumOver(rows, {r \in RowValues : r.datetime > t})
NotOlderThan(rows, t) == SumOver(rows, {r \in RowValues : r.datetime >= t})

(* C2: on a non-empty table of any kind, latest returns a row of the LIMIT
   rows of greatest datetime whose dollar_cumsum is the maximum among
   them.  Stated as the claim has it; get_latest_dollarbar raises and
   get_latest_timebar returns the row of greatest datetime. *)
C2_LatestIsMaxCumsumOfRecentWindow ==
    (res.op = "latest" /\ tbl.exists /\ Total(tbl.rows) > 0) =>
        /\ res.out = "ok"
        /\ res.row \in Present(tbl.rows)
        /\ NewerThan(tbl.rows, res.row.datetime) < LIMIT
        /\ \A s \in Present(tbl.rows) :
               NotOlderThan(tbl.rows, s.datetime) <= LIMIT =>
                   s.dollar_cumsum <= res.row.dollar_cumsum

(* C3: ensure_table(force=false) on a table that exists returns normally
   and changes nothing: the table's existence, constraint and rows, and the
   enum type, are the same after the call as before. *)
C3_EnsureWithoutForceIsNoOp ==
    [][(res'.op = "ensure_table" /\ ~res'.force /\ TableExists(tbl)) =>
           (tbl' = tbl /\ enum_side' = enum_side /\ res'.out = "ok")]_vars

C3_Witness ==
    /\ res.op = "ensure_table"
    /\ ~res.force
    /\ res.found
    /\ res.out = "ok"
    /\ tbl.unique
    /\ Total(tbl.rows) > 0

(* C4: when two callers construct a handle concurrently on a database
   without the enum type, the type is created exactly once and neither
   construction fails.  Stated as the claim has it; the loser's CREATE TYPE
   error leaves __init__. *)
C4_ConcurrentConstructionNeverFails ==
    /\ enum_side <= 1
    /\ \A c \in Callers : pc[c] # "init_failed"

(* C5: an ensure_table call that raises leaves the schema as it was before
   the call.  Stated as the claim has it; init_trade_table raises after its
   table batch has been committed. *)
C5_FailedEnsureLeavesSchemaUnchanged ==
    [][(res'.op = "ensure_table" /\ res'.out = "raise") => tbl' = tbl]_vars

(* Result rows, and stored rows, with datetime t and dollar_cumsum c *)
Returned(rows, t, c) ==
    Cardinality({i \in 1..Len(rows) : rows[i]["datetime"] = t /\ rows[i]["dollar_cumsum"] = c})
Stored(rows, t, c) ==
    SumOver(rows, {r \in RowValues : r.datetime = t /\ r.dollar_cumsum = c})

(* C6: load_range on an existing bar table returns exactly the rows with
   from <= datetime < to, each once, ordered by dollar_cumsum ascending,
   with the thirteen projected columns in their fixed order. *)
C6_LoadRangeExact ==
    (res.op = "load_range" /\ tbl.exists) =>
        /\ res.out = "ok"
        /\ res.columns =
               <<"datetime", "open", "high", "low", "close", "dollar_volume",
                 "dollar_buy_volume", "dollar_sell_volume",
                 "dollar_liquidation_buy_volume", "dollar_liquidation_sell_volume",
                 "dollar_cumsum", "dollar_buy_cumsum", "dollar_sell_cumsum">>
        /\ \A i \in 1..Len(res.rows) : DOMAIN res.rows[i] = Range(res.columns)
        /\ \A t \in 1..MaxTime, c \in 1..MaxCum :
               Returned(res.rows, t, c) =
                   IF res.from <= t /\ t < res.to THEN Stored(tbl.rows, t, c) ELSE 0
        /\ \A i \in 1..(Len(res.rows) - 1) :
               res.rows[i]["dollar_cumsum"] <= res.rows[i + 1]["dollar_cumsum"]

C6_Witness ==
    /\ res.op = "load_range"
    /\ res.out = "ok"
    /\ Len(res.rows) = 1
    /\ res.rows[1]["datetime"] = res.from
    /\ \E r \in Present(tbl.rows) : r.datetime = res.to

(* C7: every decimal column of every record a read operation returns was
   read as text and decoded to a decimal.  Stated as the claim has it;
   get_latest_trade leaves dollar_volume as text, and other read paths
   read columns without dtype str or do not decode them. *)
C7_EveryDecimalColumnDecodedFromText ==
    (res.op \in ReadOps /\ res.out = "ok" /\ (res.op = "load_range" => Len(res.rows) > 0)) =>
        \A c \in DOMAIN res.repr :
            c \in DecimalColumns(kind) => res.repr[c] = "decimal"

(* C8: an append of a row whose uniqueness key equals that of a stored row,
   to a table provisioned by init_*_table, under the fail or the append
   policy, raises and leaves the table unchanged.  Stated as the claim has
   it; rows with a NULL id never collide under UNIQUE(datetime, id).  (A
   table that to_sql created itself has no constraint at all.) *)
C8_DuplicateKeyAppendFails ==
    [][(/\ res'.op = "append"
        /\ res'.dupkey
        /\ res'.if_exists \in {"fail", "append"}
        /\ tbl.unique) =>
           (res'.out = "raise" /\ tbl' = tbl)]_vars

(* C9: after ensure_table(force=true); append of rows; ensure_table(force=true)
   the table exists and holds no row, and so after every forced ensure_table. *)
C9_ForcedEnsureLeavesEmptyTable ==
    /\ recreate = 3 => (tbl.exists /\ Total(tbl.rows) = 0)
    /\ (res.op = "ensure_table" /\ res.force) => (tbl.exists /\ Total(tbl.rows) = 0)

C9_Witness ==
    /\ recreate = 3
    /\ res.op = "ensure_table"
    /\ res.force
    /\ res.found
    /\ res.out = "ok"

(* C10: with two callers running ensure_table(force=false) on an absent
   table and appending only after their own call returned, every row whose
   append returned normally stays in the table.  Stated as the claim has
   it; a caller that saw the table absent drops the table the other caller
   has created and written to. *)
C10_NoAppendedRowLost ==
    \A r \in RowValues : Count(acked, r) <= Count(tbl.rows, r)
====
